---- MODULE Spec2Model ----
(***************************************************************************)
(* Mortgage payment heatmap (app.py): the payment function, the price and  *)
(* rate ranges, the grid-fill loop and the pivot that feeds the heatmap.   *)
(*                                                                         *)
(* Numbers.  Dollar amounts the sliders supply are whole dollars.  Python  *)
(* floats are modelled as fixed-point numbers: a dimensionless float x is  *)
(* the integer x * Scale, a computed dollar amount is held in mills        *)
(* (Mills per dollar).  Products and quotients are taken exactly and then  *)
(* truncated to the fixed-point grid, the way a float operation rounds to  *)
(* the float grid.                                                         *)
(***************************************************************************)
EXTENDS Integers, Sequences, FiniteSets, TLC

VARIABLES sliders, prices, rates, data, row, pivot, error, pc, reruns,
          scenario, calls

vars == <<sliders, prices, rates, data, row, pivot, error, pc, reruns,
          scenario, calls>>

Scale == 1000 * 1000
Mills == 10 * 100

\* Bounds of the model.
MaxReruns == 2
MaxCalls == 2

-----------------------------------------------------------------------------
(* Fixed-point arithmetic *)

Min(a, b) == IF a < b THEN a ELSE b
Max(a, b) == IF a < b THEN b ELSE a

\* <<q, r>> with a * b = q * c + r and 0 <= r < c, for a, b >= 0 and c > 0,
\* computed digit by digit of b (in base 64, or base 2 for a large c) so that
\* no intermediate exceeds 128 * c.
RECURSIVE MulDivQR(_, _, _)
MulDivQR(a, b, c) ==
    IF b = 0 THEN <<0, 0>>
    ELSE LET base == IF c <= 16000000 THEN 64 ELSE 2
             h == MulDivQR(a, b \div base, c)
             t == base * h[2] + (b % base) * (a % c)
         IN  <<base * h[1] + (b % base) * (a \div c) + (t \div c), t % c>>

\* a * b / Scale for a, b >= 0, exactly, by thousands: with a = a1 * 1000 + a0
\* and b = b1 * 1000 + b0 the product is a1 * b1 * Scale + (a1 * b0 + a0 * b1)
\* * 1000 + a0 * b0.
MulScale(a, b) ==
    LET a1 == a \div 1000
        a0 == a % 1000
        b1 == b \div 1000
        b0 == b % 1000
    IN  a1 * b1 + ((a1 * b0 + a0 * b1 + ((a0 * b0) \div 1000)) \div 1000)

\* a * b / c truncated toward zero (b >= 0, c > 0; a of either sign).
MulDiv(a, b, c) ==
    LET m == IF a < 0 THEN 0 - a ELSE a
        q == IF c = Scale THEN MulScale(m, b)
             ELSE MulDivQR(Max(m, b), Min(m, b), c)[1]
    IN  IF a < 0 THEN 0 - q ELSE q

\* x ** n for a fixed-point x and a natural n.
RECURSIVE Pow(_, _)
Pow(x, n) ==
    IF n = 0 THEN Scale
    ELSE LET h == Pow(x, n \div 2)
             sq == MulDiv(h, h, Scale)
         IN  IF n % 2 = 1 THEN MulDiv(sq, x, Scale) ELSE sq

-----------------------------------------------------------------------------
(* monthly_payment, lines 121-161 *)

\* A float result, the NaN of a numpy 0.0 / 0.0, and the exception of a
\* Python-float division by zero.
Float(v) == [tag |-> "float", val |-> v]
NaN == [tag |-> "nan", val |-> 0]
ZeroDivisionError == [tag |-> "ZeroDivisionError", val |-> 0]

\* L_base = purchase_price - down_payment
L_base(purchase_price, down_payment) == purchase_price - down_payment

\* (1 + i)**n with i = note_rate / 12 and n = term_years * 12
Growth(note_rate, term_years) == Pow(Scale + (note_rate \div 12), term_years * 12)

\* Mutant: the zero rate special-cased to its limit L / n.
P_and_I_zero_rate_limit(purchase_price, down_payment, note_rate, term_years, numpy) ==
    LET i == note_rate \div 12
        g == Growth(note_rate, term_years)
    IN  IF i = 0
        THEN Float((L_base(purchase_price, down_payment) * Mills) \div (term_years * 12))
        ELSE Float(MulDiv(L_base(purchase_price, down_payment) * Mills,
                          MulDiv(i, g, Scale), g - Scale))

\* P_and_I = L_base * (i * (1 + i)**n) / ((1 + i)**n - 1), in mills.  A zero
\* denominator is a division by zero: numpy scalars give nan (with a warning),
\* plain Python floats raise ZeroDivisionError.
P_and_I(purchase_price, down_payment, note_rate, term_years, numpy) ==
    LET i == note_rate \div 12
        g == Growth(note_rate, term_years)
        numer == MulDiv(i, g, Scale)
        denom == g - Scale
    IN  IF denom = 0
        THEN (IF numpy THEN NaN ELSE ZeroDivisionError)
        ELSE Float(MulDiv(L_base(purchase_price, down_payment) * Mills, numer, denom))

\* taxes_monthly = (purchase_price * effective_tax_rate) / 12
taxes_monthly(purchase_price, effective_tax_rate) ==
    MulDiv(purchase_price * Mills, effective_tax_rate, Scale) \div 12

\* hoi_monthly = annual_premium / 12
hoi_monthly(annual_premium) == (annual_premium * Mills) \div 12

\* Mutant: the cutoff taken as <=.
PmiAppliesInclusive(purchase_price, down_payment) ==
    down_payment * Mills <= MulDiv(purchase_price * Mills, (20 * Scale) \div 100, Scale)

\* down_payment < 0.20 * purchase_price.  The double 0.20 is (2^54 + 1) /
\* (5 * 2^54), so for whole-dollar arguments the float product is within
\* 2^-54 relative of purchase_price / 5 and the comparison decides exactly
\* as 5 * down_payment < purchase_price; the fixed-point product is exact.
PmiApplies(purchase_price, down_payment) ==
    down_payment * Mills < MulDiv(purchase_price * Mills, (20 * Scale) \div 100, Scale)

\* Mutant: the two branches of the conditional swapped.
pmi_monthly_swapped(purchase_price, down_payment, pmi_annual_rate) ==
    IF PmiApplies(purchase_price, down_payment)
    THEN 0
    ELSE MulDiv(L_base(purchase_price, down_payment) * Mills, pmi_annual_rate, Scale) \div 12

\* pmi_monthly = ((L_base * pmi_annual_rate) / 12) if ... else 0.0
pmi_monthly(purchase_price, down_payment, pmi_annual_rate) ==
    IF PmiApplies(purchase_price, down_payment)
    THEN MulDiv(L_base(purchase_price, down_payment) * Mills, pmi_annual_rate, Scale) \div 12
    ELSE 0

\* flood_monthly = flood_annual_premium / 12
flood_monthly(flood_annual_premium) == (flood_annual_premium * Mills) \div 12

\* return P_and_I + taxes_monthly + hoi_monthly + pmi_monthly + hoa_monthly
\*        + flood_monthly
monthly_payment(purchase_price, down_payment, note_rate, term_years, effective_tax_rate, annual_premium, pmi_annual_rate, hoa_monthly, flood_annual_premium, numpy) ==
    LET pi == P_and_I(purchase_price, down_payment, note_rate, term_years, numpy)
    IN  IF pi.tag # "float" THEN pi
        ELSE Float(pi.val
                   + taxes_monthly(purchase_price, effective_tax_rate)
                   + hoi_monthly(annual_premium)
                   + pmi_monthly(purchase_price, down_payment, pmi_annual_rate)
                   + hoa_monthly * Mills
                   + flood_monthly(flood_annual_premium))

-----------------------------------------------------------------------------
(* numpy helpers used by the script *)

\* np.arange(start, stop, step): ceil((stop - start) / step) values
\* start, start + step, ... (none when stop <= start).
arange(start, stop, step) ==
    LET n == IF stop > start THEN (stop - start + step - 1) \div step ELSE 0
    IN  [k \in 1..n |-> start + (k - 1) * step]

\* np.round(x, decimals) of a fixed-point x: to the nearest multiple of
\* 10^-decimals, halves to the even multiple (rint).
np_round(x, decimals) ==
    LET g == Scale \div (10 ^ decimals)
        q == x \div g
        rem == x % g
    IN  IF 2 * rem < g THEN q * g
        ELSE IF 2 * rem > g THEN (q + 1) * g
        ELSE IF q % 2 = 0 THEN q * g ELSE (q + 1) * g

\* A percentage written with two decimals (0.91 is Pct(91)) as a fixed-point
\* number, and x / 100.
Pct(hundredths) == hundredths * (Scale \div 100)
Div100(x) == x \div 100

Range(seq) == {seq[k] : k \in DOMAIN seq}

-----------------------------------------------------------------------------
(* Sidebar sliders, lines 23-115 *)

\* Mutant: a down payment slider that runs to 400,000.
down_payment_options_wide == Range(arange(0, 400001, 1000))

down_payment_options == Range(arange(0, 40001, 1000))
term_years_options == Range(arange(10, 31, 5))
effective_tax_rate_options ==
    {np_round(x, 2) : x \in Range(arange(Pct(50), Pct(151), Pct(1)))}
annual_premium_options == Range(arange(2000, 5001, 20))
pmi_annual_rate_options ==
    {np_round(x, 2) : x \in Range(arange(Pct(30), Pct(151), Pct(1)))}
hoa_monthly_options == Range(arange(0, 501, 25))
flood_annual_premium_options == Range(arange(300, 1201, 25))
price_options == Range(arange(230000, 310001, 1000))
price_step_options == Range(arange(1000, 25001, 1000))
\* Mutant: rate sliders that start at 0%.
rate_options_from_zero ==
    {np_round(x, 3) : x \in Range(arange(0, Pct(810), Pct(10)))}

rate_options == {np_round(x, 3) : x \in Range(arange(Pct(300), Pct(810), Pct(10)))}
rate_step_options == {Pct(10), Pct(25), Pct(50), Pct(100)}

\* The value= of each slider: the widget state of a fresh session.
Defaults ==
    [down_payment |-> 25000, term_years |-> 30, effective_tax_rate |-> Pct(91),
     annual_premium |-> 3120, pmi_annual_rate |-> Pct(50), hoa_monthly |-> 0,
     flood_annual_premium |-> 400, price_min |-> 250000, price_max |-> 305000,
     price_step |-> 5000, rate_min |-> Pct(400), rate_max |-> Pct(650),
     rate_step |-> Pct(25)]

Options ==
    [down_payment |-> down_payment_options, term_years |-> term_years_options,
     effective_tax_rate |-> effective_tax_rate_options,
     annual_premium |-> annual_premium_options,
     pmi_annual_rate |-> pmi_annual_rate_options,
     hoa_monthly |-> hoa_monthly_options,
     flood_annual_premium |-> flood_annual_premium_options,
     price_min |-> price_options, price_max |-> price_options,
     price_step |-> price_step_options, rate_min |-> rate_options,
     rate_max |-> rate_options, rate_step |-> rate_step_options]

\* The positions the model moves a slider to: its default and both ends of
\* its options; of the two step sliders the default and the coarsest step (a
\* finer step only adds cells between the same ends).
Positions(name) ==
    {v \in Options[name] :
        \/ v = Defaults[name]
        \/ \A w \in Options[name] : v >= w
        \/ name \notin {"price_step", "rate_step"} /\ \A w \in Options[name] : v <= w}

-----------------------------------------------------------------------------
(* The script body, lines 164-224 *)

\* Mutant: the stop without its + 1.
PricesExclusive(price_min, price_max, price_step) == arange(price_min, price_max, price_step)

\* prices = np.arange(price_min, price_max + 1, price_step, dtype=int)
Prices(price_min, price_max, price_step) == arange(price_min, price_max + 1, price_step)

\* The 1e-12 added to the stop of the rate range.  It lies below the
\* fixed-point resolution and is held as one quantum, the smallest positive
\* amount: above any rounding error of the range (none here), far below the
\* spacing of the rates.
Epsilon == 1

\* Mutant: the stop without its 1e-12.
RatesNoEpsilon(rate_min, rate_max, rate_step) ==
    LET raw == arange(Div100(rate_min), Div100(rate_max), Div100(rate_step))
    IN  [k \in DOMAIN raw |-> np_round(raw[k], 4)]

\* rates = np.round(np.arange(rate_min/100, rate_max/100 + 1e-12,
\*                            rate_step/100, dtype=float), 4)
Rates(rate_min, rate_max, rate_step) ==
    LET raw == arange(Div100(rate_min), Div100(rate_max) + Epsilon, Div100(rate_step))
    IN  [k \in DOMAIN raw |-> np_round(raw[k], 4)]

\* Mutant: the scenario taken from the first run's slider values.
CellOfFirstRun(r, p) ==
    [interest_rate |-> r, purchase_price |-> p,
     monthly_payment |->
        monthly_payment(p, Defaults.down_payment, r, Defaults.term_years,
                        Div100(Defaults.effective_tax_rate), Defaults.annual_premium,
                        Div100(Defaults.pmi_annual_rate), Defaults.hoa_monthly,
                        Defaults.flood_annual_premium, TRUE)]

\* One pass of the inner loop body: the call of monthly_payment and the dict
\* appended to data.  r and p are numpy scalars.
Cell(r, p) ==
    [interest_rate |-> r, purchase_price |-> p,
     monthly_payment |->
        monthly_payment(p, sliders.down_payment, r, sliders.term_years,
                        Div100(sliders.effective_tax_rate), sliders.annual_premium,
                        Div100(sliders.pmi_annual_rate), sliders.hoa_monthly,
                        sliders.flood_annual_premium, TRUE)]

\* Mutant: the inner loop stops one price short.
RowCellsShort(r) == [j \in 1..(Len(prices) - 1) |-> Cell(r, prices[j])]

\* The inner loop "for p in prices" for one rate r: the rows it appends.
RowCells(r) == [j \in 1..Len(prices) |-> Cell(r, prices[j])]

Keys(d) == {<<d[k].interest_rate, d[k].purchase_price>> : k \in DOMAIN d}

\* df.pivot(index="interest_rate", columns="purchase_price",
\*          values="monthly_payment") of pd.DataFrame(d): a frame built from an
\* empty list has no columns, so naming one raises KeyError; two rows with
\* one (index, column) pair raise ValueError.
PivotError(d) ==
    IF Len(d) = 0 THEN "KeyError"
    ELSE IF Cardinality(Keys(d)) # Len(d) THEN "ValueError"
    ELSE "none"

\* The pivoted table: the payment of each (interest_rate, purchase_price).
PivotTable(d) ==
    IF PivotError(d) # "none" THEN <<>>
    ELSE [key \in Keys(d) |->
            d[CHOOSE k \in DOMAIN d :
                <<d[k].interest_rate, d[k].purchase_price>> = key].monthly_payment]

NoScenario == [down_payment |-> 0]

Init ==
    /\ sliders = Defaults
    /\ prices = <<>>
    /\ rates = <<>>
    /\ data = <<>>
    /\ row = 0
    /\ pivot = <<>>
    /\ error = "none"
    /\ pc = "ranges"
    /\ reruns = 0
    /\ scenario = NoScenario
    /\ calls = <<>>

\* Lines 164-168: the two ranges and the empty list.
BuildRanges ==
    /\ pc = "ranges"
    /\ prices' = Prices(sliders.price_min, sliders.price_max, sliders.price_step)
    /\ rates' = Rates(sliders.rate_min, sliders.rate_max, sliders.rate_step)
    /\ data' = <<>>
    /\ row' = 1
    /\ pc' = "fill"
    /\ UNCHANGED <<sliders, pivot, error, reruns, scenario, calls>>

\* Lines 169-178: one iteration of "for r in rates", the whole inner loop.
FillRow ==
    /\ pc = "fill"
    /\ row <= Len(rates)
    /\ data' = data \o RowCells(rates[row])
    /\ row' = row + 1
    /\ UNCHANGED <<sliders, prices, rates, pivot, error, pc, reruns, scenario, calls>>

\* Lines 179-206: the frame and the pivot handed to px.imshow.  An exception
\* ends the run; Streamlit shows it in place of the page.
Heatmap ==
    /\ pc = "fill"
    /\ row > Len(rates)
    /\ error' = PivotError(data)
    /\ pivot' = PivotTable(data)
    /\ pc' = IF PivotError(data) = "none" THEN "chart" ELSE "failed"
    /\ UNCHANGED <<sliders, prices, rates, data, row, reruns, scenario, calls>>

\* Lines 209-224: the chart is shown, the frame is pivoted again (the same
\* table) and shown under "Show Values".
ShowValues ==
    /\ pc = "chart"
    /\ pc' = "done"
    /\ UNCHANGED <<sliders, prices, rates, data, row, pivot, error, reruns, scenario, calls>>

\* The user moves one slider: Streamlit runs the script again from the top,
\* in a fresh namespace, with the new widget state.  A run in progress is
\* stopped at its next st.* call (the chart); otherwise the run has ended,
\* normally or in an exception.
Rerun ==
    /\ pc \in {"chart", "done", "failed"}
    /\ reruns < MaxReruns
    /\ \E name \in DOMAIN Defaults : \E v \in Positions(name) :
          /\ v # sliders[name]
          /\ sliders' = [sliders EXCEPT ![name] = v]
    /\ prices' = <<>>
    /\ rates' = <<>>
    /\ data' = <<>>
    /\ row' = 0
    /\ pivot' = <<>>
    /\ error' = "none"
    /\ pc' = "ranges"
    /\ reruns' = reruns + 1
    /\ UNCHANGED <<scenario, calls>>

Next == BuildRanges \/ FillRow \/ Heatmap \/ ShowValues \/ Rerun

Spec == Init /\ [][Next]_vars

-----------------------------------------------------------------------------
(* The ranges over every position of the six grid sliders *)

\* The price sliders at every position with the rest at their defaults, or
\* the rate sliders at every position with the rest at their defaults.
InitRanges ==
    /\ \/ \E a \in price_options, b \in price_options, c \in price_step_options :
             sliders = [Defaults EXCEPT !.price_min = a, !.price_max = b,
                                        !.price_step = c]
       \/ \E a \in rate_options, b \in rate_options, c \in rate_step_options :
             sliders = [Defaults EXCEPT !.rate_min = a, !.rate_max = b,
                                        !.rate_step = c]
    /\ prices = <<>>
    /\ rates = <<>>
    /\ data = <<>>
    /\ row = 0
    /\ pivot = <<>>
    /\ error = "none"
    /\ pc = "ranges"
    /\ reruns = 0
    /\ scenario = NoScenario
    /\ calls = <<>>

SpecRanges == InitRanges /\ [][BuildRanges]_vars

-----------------------------------------------------------------------------
(* monthly_payment as a function: calls on one scenario at several prices *)

CalcScenarios ==
    [down_payment : {0, 1, 50000},
     note_rate : {0, (3 * Scale) \div 100, (8 * Scale) \div 100},
     term_years : {10, 30},
     effective_tax_rate : {0, Div100(Pct(91))},
     annual_premium : {0, 3120},
     pmi_annual_rate : {0, Div100(Pct(30)), Div100(Pct(150))},
     hoa_monthly : {0, 500},
     flood_annual_premium : {400},
     numpy : BOOLEAN]

CalcPrices == {5, 10, 249999, 250000, 250005}

InitCalc ==
    /\ scenario \in CalcScenarios
    /\ calls = <<>>
    /\ sliders = Defaults
    /\ prices = <<>>
    /\ rates = <<>>
    /\ data = <<>>
    /\ row = 0
    /\ pivot = <<>>
    /\ error = "none"
    /\ pc = "calc"
    /\ reruns = 0

\* One call of monthly_payment; the caller keeps what it returned (or raised)
\* and, for inspection, the pmi_monthly the call computed on the way.
Call ==
    /\ pc = "calc"
    /\ Cardinality(DOMAIN calls) < MaxCalls
    /\ \E p \in CalcPrices \ DOMAIN calls :
          calls' = [q \in DOMAIN calls \cup {p} |->
                      IF q \in DOMAIN calls THEN calls[q]
                      ELSE [monthly_payment |->
                               monthly_payment(p, scenario.down_payment,
                                   scenario.note_rate, scenario.term_years,
                                   scenario.effective_tax_rate,
                                   scenario.annual_premium,
                                   scenario.pmi_annual_rate, scenario.hoa_monthly,
                                   scenario.flood_annual_premium, scenario.numpy),
                            pmi_monthly |->
                               pmi_monthly(p, scenario.down_payment,
                                           scenario.pmi_annual_rate)]]
    /\ UNCHANGED <<sliders, prices, rates, data, row, pivot, error, pc, reruns, scenario>>

SpecCalc == InitCalc /\ [][Call]_vars

-----------------------------------------------------------------------------
(* Properties *)

\* The loop "for r in rates" has run to its end.
LoopDone ==
    \/ pc \in {"chart", "done", "failed"}
    \/ pc = "fill" /\ row > Len(rates)

\* What the current sliders make of cell (r, p).
Expected(r, p) ==
    monthly_payment(p, sliders.down_payment, r, sliders.term_years,
                    Div100(sliders.effective_tax_rate), sliders.annual_premium,
                    Div100(sliders.pmi_annual_rate), sliders.hoa_monthly,
                    sliders.flood_annual_premium, TRUE)

\* C1: PMI is charged iff down_payment < 0.20 * purchase_price, strictly: with
\* a positive price and PMI rate, a call whose down payment is exactly a fifth
\* of the price computes zero PMI, and one whose down payment is one dollar
\* less computes (purchase_price - down_payment) * pmi_annual_rate / 12 > 0.
C1_PmiBoundary ==
    \A p \in DOMAIN calls :
        (p > 0 /\ scenario.pmi_annual_rate > 0) =>
            LET dp == scenario.down_payment
                pmi == calls[p].pmi_monthly
            IN  /\ (pmi > 0) <=> (5 * dp < p)
                /\ (5 * dp = p) => (pmi = 0)
                /\ (5 * (dp + 1) = p) =>
                      /\ pmi > 0
                      /\ pmi = MulDiv((p - dp) * Mills, scenario.pmi_annual_rate,
                                      Scale) \div 12

\* One scenario called at exactly 20% down (no PMI) and at one dollar less
\* than 20% down (PMI charged).
C1_Witness ==
    /\ scenario.pmi_annual_rate > 0
    /\ \E p \in DOMAIN calls :
          5 * scenario.down_payment = p /\ calls[p].pmi_monthly = 0
    /\ \E p \in DOMAIN calls :
          5 * (scenario.down_payment + 1) = p /\ calls[p].pmi_monthly > 0

\* C2: once the fill loop has finished, the keys of data are exactly the
\* product of the rates and the prices: |rates| * |prices| entries, every
\* pair present, no key twice.
C2_GridIsProduct ==
    LoopDone =>
        /\ Len(data) = Len(rates) * Len(prices)
        /\ Keys(data) = Range(rates) \X Range(prices)
        /\ Cardinality(Keys(data)) = Len(data)

\* A finished loop over a grid of several rates and several prices.
C2_Witness ==
    /\ pc = "done"
    /\ Len(rates) >= 2
    /\ Len(prices) >= 2
    /\ Len(data) = Len(rates) * Len(prices)

\* C3: after every recomputation the matrix is the one the current sliders
\* define: its keys are the current ranges' pairs and each cell is
\* monthly_payment of the current scenario with that cell's rate and price;
\* nothing of an earlier run remains.
C3_RebuiltFromCurrentInputs ==
    pc \in {"chart", "done"} =>
        /\ DOMAIN pivot =
              Range(Rates(sliders.rate_min, sliders.rate_max, sliders.rate_step))
              \X Range(Prices(sliders.price_min, sliders.price_max, sliders.price_step))
        /\ \A key \in DOMAIN pivot : pivot[key] = Expected(key[1], key[2])

\* A matrix rebuilt after two slider moves, one of them a scenario slider
\* now off its default.
C3_Witness ==
    /\ pc = "done"
    /\ reruns = 2
    /\ sliders.down_payment # Defaults.down_payment
    /\ DOMAIN pivot # {}

\* C4: for price_min <= price_max the prices are price_min, price_min +
\* price_step, ...: every such value up to price_max and none above it,
\* strictly ascending, floor((price_max - price_min) / price_step) + 1 of
\* them.
C4_PriceSequence ==
    (pc = "fill" /\ sliders.price_min <= sliders.price_max) =>
        /\ Len(prices) = ((sliders.price_max - sliders.price_min) \div sliders.price_step) + 1
        /\ \A k \in DOMAIN prices :
              /\ prices[k] = sliders.price_min + (k - 1) * sliders.price_step
              /\ prices[k] <= sliders.price_max
              /\ k > 1 => prices[k - 1] < prices[k]
        /\ sliders.price_min + Len(prices) * sliders.price_step > sliders.price_max

\* A price range whose last step lands on price_max, and is included.
C4_Witness ==
    /\ pc = "fill"
    /\ sliders.price_min < sliders.price_max
    /\ Len(prices) >= 3
    /\ prices[Len(prices)] = sliders.price_max

C6_MonotoneInPrice ==
    \A p1 \in DOMAIN calls : \A p2 \in DOMAIN calls :
        (p1 < p2 /\ scenario.down_payment < p1 /\ scenario.note_rate > 0) =>
            /\ calls[p1].monthly_payment.tag = "float"
            /\ calls[p2].monthly_payment.tag = "float"
            /\ calls[p1].monthly_payment.val < calls[p2].monthly_payment.val

\* Two calls on either side of the 20% threshold: PMI waived at the lower
\* price, charged at the higher one.
C6_Witness ==
    /\ scenario.note_rate > 0
    /\ scenario.pmi_annual_rate > 0
    /\ \E p1 \in DOMAIN calls : \E p2 \in DOMAIN calls :
          /\ p1 < p2
          /\ scenario.down_payment < p1
          /\ calls[p1].pmi_monthly = 0
          /\ calls[p2].pmi_monthly > 0
          /\ calls[p1].monthly_payment.val < calls[p2].monthly_payment.val

\* C7: with price_min > price_max or rate_min > rate_max the sequence is
\* empty and the run yields an empty matrix, not an error.
C7_EmptyRangeEmptyMatrix ==
    (LoopDone /\ pc # "fill"
       /\ (sliders.price_min > sliders.price_max \/ sliders.rate_min > sliders.rate_max)) =>
        /\ Len(prices) = 0 \/ Len(rates) = 0
        /\ data = <<>>
        /\ pivot = <<>>
        /\ error = "none"

\* C8: a zero note_rate is not special-cased: the call ends in the division
\* by zero (nan for numpy scalars, ZeroDivisionError for Python floats), never
\* in a finite payment.
C8_ZeroRateFails ==
    \A p \in DOMAIN calls :
        scenario.note_rate = 0 =>
            calls[p].monthly_payment =
                (IF scenario.numpy THEN NaN ELSE ZeroDivisionError)

\* A call at a zero rate that came back nan.
C8_Witness ==
    /\ scenario.note_rate = 0
    /\ \E p \in DOMAIN calls : calls[p].monthly_payment.tag = "nan"

\* C9: whatever the sliders, down_payment < 0.20 * purchase_price in every
\* grid cell and its PMI is strictly positive: for every down payment option
\* (0..40000) with every price option (230000..310000) at the lowest PMI rate
\* (0.30%), and in every cell the loop appended.
C9_PmiAlwaysCharged ==
    /\ (pc = "ranges" /\ reruns = 0) =>
          /\ \A pmi \in pmi_annual_rate_options : pmi >= Pct(30) /\ pmi <= Pct(150)
          /\ \A dp \in down_payment_options : \A p \in price_options :
                /\ dp >= 0 /\ dp <= 40000 /\ p >= 230000 /\ p <= 310000
                /\ PmiApplies(p, dp)
                /\ pmi_monthly(p, dp, Div100(Pct(30))) > 0
    /\ \A k \in DOMAIN data :
          /\ PmiApplies(data[k].purchase_price, sliders.down_payment)
          /\ pmi_monthly(data[k].purchase_price, sliders.down_payment,
                         Div100(sliders.pmi_annual_rate)) > 0

\* The cell nearest the threshold: the largest down payment, the lowest price.
C9_Witness ==
    /\ pc = "done"
    /\ sliders.down_payment = 40000
    /\ \E k \in DOMAIN data : data[k].purchase_price = 230000

\* C10: every call the grid makes is inside the calculator's domain: a
\* positive principal, a note rate in [0.03, 0.08], a term among 10, 15, 20,
\* 25, 30 years, tax and PMI rates as fractions below 1; no cell is a
\* division by zero.  Stated of every slider option and of every cell built.
C10_CallsInDomain ==
    /\ (pc = "ranges" /\ reruns = 0) =>
          /\ \A dp \in down_payment_options : \A p \in price_options : p - dp > 0
          /\ \A r \in rate_options :
                /\ Div100(r) >= (3 * Scale) \div 100
                /\ Div100(r) <= (8 * Scale) \div 100
          /\ term_years_options = {10, 15, 20, 25, 30}
          /\ \A t \in effective_tax_rate_options \cup pmi_annual_rate_options :
                Div100(t) > 0 /\ Div100(t) < Scale
    /\ \A k \in DOMAIN data :
          /\ data[k].purchase_price - sliders.down_payment > 0
          /\ data[k].interest_rate >= (3 * Scale) \div 100
          /\ data[k].interest_rate <= (8 * Scale) \div 100
          /\ sliders.term_years \in {10, 15, 20, 25, 30}
          /\ Div100(sliders.effective_tax_rate) < Scale
          /\ Div100(sliders.pmi_annual_rate) < Scale
          /\ data[k].monthly_payment.tag = "float"

\* A finished grid, at the largest down payment, holding a cell at the
\* lowest rate.
C10_Witness ==
    /\ pc = "done"
    /\ sliders.down_payment = 40000
    /\ \E k \in DOMAIN data :
          /\ data[k].interest_rate = (3 * Scale) \div 100
          /\ data[k].monthly_payment.tag = "float"

====
